---- MODULE Spec2Model ----
(***************************************************************************)
(* Client-side storage layer of welabeldata-tool: the compression codec    *)
(* (CompressionService), the typed record store (StorageModule), the       *)
(* workflow store (WorkflowStorage) and the legacy storage service they    *)
(* migrate from (lib/storageService).                                      *)
(*                                                                         *)
(* JavaScript strings are sequences of units.  A unit is a plain           *)
(* character, the output of LZString.compressToUTF16 for some string, or   *)
(* the output of JSON.stringify for some value; the two library outputs    *)
(* are kept symbolic (they carry what they encode and have a length), so   *)
(* the library contracts hold exactly and everything the repository's own  *)
(* code does with the strings (marker prefix, thresholds, fallbacks,       *)
(* wrapping, keys) is computed as the code computes it.                    *)
(***************************************************************************)
EXTENDS Integers, Sequences, FiniteSets, TLC

VARIABLES
    localStorage,    \* the browser's key/value store: key -> [present, s]
    useCompression,  \* StorageModule.useCompression, per store instance
    threshold,       \* CompressionService.threshold, per codec instance
    now,             \* the value Date.now() returns
    cur,             \* the string a stand-alone CompressionService is applied to
    lastSet,         \* per store: the value of the last successful set() not yet overwritten
    last,            \* the last call: operation, argument, result, storage before it
    tabs             \* per browser tab: where its saveWorkflow call stands, and its locals

vars == <<localStorage, useCompression, threshold, now, cur, lastSet, last, tabs>>

\* ---------------------------------------------------------------- bounds

\* Date.now() ranges over 1..MaxClock.
MaxClock == 2
\* Plain strings handed to the codec have at most MaxLen characters.
MaxLen == 3
\* A string handed to the codec carries at most MaxLayers layers of compression.
MaxLayers == 2
\* Thresholds are scaled with the strings of the model: the program's 10 KiB
\* and 100 KiB become a few hundred bytes and a few bytes.
DEFAULT_COMPRESSION_THRESHOLD == 400
IMAGE_COMPRESSION_THRESHOLD == 8
\* compressionThreshold of the store the compression test constructs (1 KiB)
TEST_COMPRESSION_THRESHOLD == 80
\* The length recentWorkflows is cut to (10 in the program), scaled likewise.
MAX_RECENT_WORKFLOWS == 3

\* ------------------------------------------------------- JavaScript values

JNull == [k |-> "null", v |-> 0]
JUndef == [k |-> "undefined", v |-> 0]
JBool(b) == [k |-> "boolean", v |-> b]
JNum(n) == [k |-> "number", v |-> n]
JStr(s) == [k |-> "string", v |-> s]
JArr(a) == [k |-> "array", v |-> a]
JObj(o) == [k |-> "object", v |-> o]

\* typeof x
typeof(x) ==
    CASE x.k = "undefined" -> "undefined"
      [] x.k = "boolean" -> "boolean"
      [] x.k = "number" -> "number"
      [] x.k = "string" -> "string"
      [] OTHER -> "object"

\* Array.isArray(x)
isArray(x) == x.k = "array"

\* x.f for a value that is neither null nor undefined (those throw)
Prop(x, f) ==
    IF x.k = "object" /\ f \in DOMAIN x.v THEN x.v[f] ELSE JUndef

\* !x
Falsy(x) ==
    \/ x.k \in {"null", "undefined"}
    \/ x.k = "boolean" /\ ~x.v
    \/ x.k = "number" /\ x.v = 0
    \/ x.k = "string" /\ x.v = <<>>

\* { ...x, [f]: y }
With(x, f, y) ==
    JObj([g \in DOMAIN x.v \cup {f} |-> IF g = f THEN y ELSE x.v[g]])

\* ----------------------------------------------------------------- strings

\* Ch(c): the characters c, a run of plain text that is never split
Ch(c) == [k |-> "ch", v |-> c]
LZ(s) == [k |-> "lz", v |-> s]
JT(x) == [k |-> "json", v |-> x]

\* 'c'.repeat(n)
Rep(c, n) == [i \in 1..n |-> Ch(c)]

RECURSIVE StrLen(_), JsonLen(_), JsonLenSeq(_), JsonLenObj(_, _)

\* The length of what LZString.compressToUTF16 returns for s: the library
\* packs the input and always appends one closing character.
LZLen(s) == (StrLen(s) \div 2) + 1

UnitLen(u) ==
    CASE u.k = "ch" -> Len(u.v)
      [] u.k = "lz" -> LZLen(u.v)
      [] u.k = "json" -> JsonLen(u.v)

\* s.length
StrLen(s) == IF s = <<>> THEN 0 ELSE UnitLen(Head(s)) + StrLen(Tail(s))

\* JSON.stringify(x).length
JsonLen(x) ==
    CASE x.k = "null" -> 4
      [] x.k = "boolean" -> IF x.v THEN 4 ELSE 5
      [] x.k = "number" -> 1
      [] x.k = "string" -> 2 + StrLen(x.v)
      [] x.k = "array" ->
            2 + JsonLenSeq(x.v) + (IF Len(x.v) > 1 THEN Len(x.v) - 1 ELSE 0)
      [] x.k = "object" ->
            2 + JsonLenObj(x.v, DOMAIN x.v)
              + (IF Cardinality(DOMAIN x.v) > 1 THEN Cardinality(DOMAIN x.v) - 1 ELSE 0)

JsonLenSeq(a) == IF a = <<>> THEN 0 ELSE JsonLen(Head(a)) + JsonLenSeq(Tail(a))

JsonLenObj(o, D) ==
    IF D = {} THEN 0
    ELSE LET f == CHOOSE g \in D : TRUE
         IN Len(f) + 3 + JsonLen(o[f]) + JsonLenObj(o, D \ {f})

\* What JSON.parse(JSON.stringify(x)) yields: a property whose value is
\* undefined is dropped, an undefined array element becomes null.
RECURSIVE Jsonify(_)
Jsonify(x) ==
    CASE x.k = "array" ->
            JArr([i \in 1..Len(x.v) |->
                    IF x.v[i].k = "undefined" THEN JNull ELSE Jsonify(x.v[i])])
      [] x.k = "object" ->
            JObj([f \in {g \in DOMAIN x.v : x.v[g].k # "undefined"} |-> Jsonify(x.v[f])])
      [] OTHER -> x

\* JSON.stringify(x), for x other than undefined
stringify(x) == <<JT(Jsonify(x))>>

\* JSON.parse(s): [ok, x]; ok is FALSE where the library throws a SyntaxError
parse(s) ==
    IF Len(s) = 1 /\ s[1].k = "json"
    THEN [ok |-> TRUE, x |-> s[1].v]
    ELSE [ok |-> FALSE, x |-> JUndef]

\* s.substring(n)
substring(s, n) == SubSeq(s, n + 1, Len(s))

\* s.startsWith(p)
startsWith(s, p) == Len(s) >= Len(p) /\ SubSeq(s, 1, Len(p)) = p

\* ------------------------------------------------------ CompressionService

\* '__COMPRESSED__:'
COMPRESSION_MARKER ==
    <<Ch("_"), Ch("_"), Ch("C"), Ch("O"), Ch("M"), Ch("P"), Ch("R"), Ch("E"),
      Ch("S"), Ch("S"), Ch("E"), Ch("D"), Ch("_"), Ch("_"), Ch(":")>>

\* LZString.compressToUTF16(s)
compressToUTF16(s) == <<LZ(s)>>

\* LZString.decompressFromUTF16(c): [ok, s]; ok is FALSE where the library
\* returns null (the empty string, or a string it did not produce)
decompressFromUTF16(c) ==
    IF Len(c) = 1 /\ c[1].k = "lz"
    THEN [ok |-> TRUE, s |-> c[1].v]
    ELSE [ok |-> FALSE, s |-> <<>>]

isCompressed(data) == startsWith(data, COMPRESSION_MARKER)

compress(data) == COMPRESSION_MARKER \o compressToUTF16(data)

decompress(data) ==
    IF ~isCompressed(data) THEN data
    ELSE LET compressedData == substring(data, Len(COMPRESSION_MARKER))
             r == decompressFromUTF16(compressedData)
         IN \* LZString.decompressFromUTF16(compressedData) || data
            IF r.ok /\ r.s # <<>> THEN r.s ELSE data

\* autoCompress of the instance whose threshold is thr
autoCompress_gt(data, thr) ==
    IF StrLen(data) * 2 > thr THEN compress(data) ELSE data

autoCompress(data, thr) ==
    LET sizeInBytes == StrLen(data) * 2
    IN IF sizeInBytes >= thr THEN compress(data) ELSE data

autoDecompress_compress(data) ==
    IF isCompressed(data) THEN compress(data) ELSE data

autoDecompress(data) ==
    IF isCompressed(data) THEN decompress(data) ELSE data

\* ------------------------------------------------------------ localStorage

\* options.namespace || 'wld' and options.version || 1, with no options given
namespace == "wld"
version == 1

storageKey_preferences(key) ==
    namespace \o "_" \o (IF key = "annotations" THEN "preferences" ELSE key)

\* `${this.namespace}_${key}`
storageKey(key) == namespace \o "_" \o key

\* STORAGE_KEYS.WORKFLOWS of the legacy storage service
STORAGE_KEYS_WORKFLOWS == "wld_workflows"

\* The store instances: a plain StorageModule and the WorkflowStorage.
Stores == {"test_array", "workflows"}

\* The domain stores the application constructs: WorkflowStorage,
\* AnnotationStorage, PreferencesStorage.
DomainStores == {"workflows", "annotations", "preferences"}

AllStores == Stores \cup DomainStores

\* `${this.storageKey}_backup_${Date.now()}`, the clock reading t
backupKey(st, t) == storageKey(st) \o "_backup_" \o ToString(t)

BackupKeys == {backupKey(st, t) : st \in Stores, t \in 1..MaxClock}

Keys == {storageKey(st) : st \in AllStores} \cup {STORAGE_KEYS_WORKFLOWS} \cup BackupKeys

NoItem == [present |-> FALSE, s |-> <<>>]
Item(s) == [present |-> TRUE, s |-> s]

\* localStorage.getItem(key): NoItem stands for null
getItem(ls, key) == ls[key]

\* localStorage.setItem(key, s), when it does not throw
setItem(ls, key, s) == [ls EXCEPT ![key] = Item(s)]

\* localStorage.removeItem(key)
removeItem(ls, key) == [ls EXCEPT ![key] = NoItem]

\* ------------------------------------------------------------ StorageModule

wrapData(data) ==
    JObj([version |-> JNum(version), updatedAt |-> JNum(now), data |-> data])

unwrapData_strict(storedData) ==
    IF Falsy(storedData) THEN JNull
    ELSE IF Prop(storedData, "version").k = "number" /\ Prop(storedData, "version").v < version
         THEN JNull
         ELSE Prop(storedData, "data")

unwrapData(storedData) ==
    IF Falsy(storedData) THEN JNull
    ELSE \* storedData.version < this.version only logs
         Prop(storedData, "data")



\* WorkflowStorage.validateData; reading a property of a null or undefined
\* element throws, which set() catches and answers with false
validateWorkflows(workflows) ==
    /\ isArray(workflows)
    /\ \A i \in 1..Len(workflows.v) :
          LET workflow == workflows.v[i]
          IN /\ workflow.k \notin {"null", "undefined"}
             /\ typeof(Prop(workflow, "id")) = "string"
             /\ typeof(Prop(workflow, "title")) = "string"
             /\ isArray(Prop(workflow, "steps"))
             /\ typeof(Prop(workflow, "createdAt")) = "number"
             /\ typeof(Prop(workflow, "updatedAt")) = "number"

\* Object.values(x) of an object or an array, as a set
Values(x) ==
    IF x.k = "object" THEN {x.v[f] : f \in DOMAIN x.v}
    ELSE IF x.k = "array" THEN {x.v[i] : i \in 1..Len(x.v)}
    ELSE {}

\* AnnotationStorage.validateData; Object.values(null) and step.id of a null
\* step throw, which set() catches and answers with false
validateAnnotations(data) ==
    /\ ~Falsy(data)
    /\ typeof(data) = "object"
    /\ \A workflowSteps \in Values(data) :
          /\ typeof(workflowSteps) = "object"
          /\ workflowSteps.k # "null"
          /\ \A step \in Values(workflowSteps) :
                /\ typeof(step) = "object"
                /\ step.k # "null"
                /\ typeof(Prop(step, "id")) = "string"
                /\ typeof(Prop(step, "title")) = "string"

\* PreferencesStorage.validateData
validatePreferences(data) ==
    /\ ~Falsy(data)
    /\ typeof(data) = "object"
    /\ ~Falsy(Prop(data, "theme")) /\ typeof(Prop(data, "theme")) = "object"
    /\ ~Falsy(Prop(data, "editor")) /\ typeof(Prop(data, "editor")) = "object"
    /\ ~Falsy(Prop(data, "export")) /\ typeof(Prop(data, "export")) = "object"
    /\ typeof(Prop(data, "lastUpdated")) = "number"

validateData_any(st, data) == TRUE

\* validateData of store st: the base check, overridden by the domain stores
validateData(st, data) ==
    CASE st = "workflows" -> validateWorkflows(data)
      [] st = "annotations" -> validateAnnotations(data)
      [] st = "preferences" -> validatePreferences(data)
      [] OTHER -> data.k # "null" /\ data.k # "undefined"

get_noDecompress(ls, st) ==
    LET rawData == getItem(ls, storageKey(st))
    IN IF ~rawData.present \/ rawData.s = <<>> THEN JNull
       ELSE LET storedData == parse(rawData.s)
            IN IF ~storedData.ok THEN JNull ELSE unwrapData(storedData.x)

\* StorageModule.get of store st on storage ls
get(ls, st) ==
    LET rawData == getItem(ls, storageKey(st))
    IN IF ~rawData.present \/ rawData.s = <<>> THEN JNull
       ELSE LET decompressedRawData == autoDecompress(rawData.s)
                storedData == parse(decompressedRawData)
            IN IF ~storedData.ok THEN JNull   \* catch: return null
               ELSE unwrapData(storedData.x)

\* StorageModule.set of store st on storage ls; quota is whether
\* localStorage.setItem throws.  [ret, ls, data]: the result, the storage
\* afterwards and the value set() was called with.
set(ls, st, data, quota) ==
    IF ~validateData(st, data) THEN [ret |-> FALSE, ls |-> ls, data |-> data]
    ELSE LET wrappedData == wrapData(data)
             serializedData == stringify(wrappedData)
             finalData == IF useCompression[st]
                          THEN autoCompress(serializedData, threshold[st])
                          ELSE serializedData
         IN IF quota THEN [ret |-> FALSE, ls |-> ls, data |-> data]
            ELSE [ret |-> TRUE, ls |-> setItem(ls, storageKey(st), finalData),
                  data |-> data]

\* StorageModule.createBackup of store st: [ret, ls], ret the backup key or
\* null; quota is whether localStorage.setItem throws
createBackup(ls, st, quota) ==
    LET data == get(ls, st)
    IN IF Falsy(data) THEN [ret |-> JNull, ls |-> ls]
       ELSE LET backupData == wrapData(data)
                serializedData ==
                    IF useCompression[st]
                    THEN autoCompress(stringify(backupData), threshold[st])
                    ELSE stringify(backupData)
            IN IF quota THEN [ret |-> JNull, ls |-> ls]
               ELSE [ret |-> JStr(<<Ch(backupKey(st, now))>>),
                     ls |-> setItem(ls, backupKey(st, now), serializedData)]

\* ---------------------------------------------------------- WorkflowStorage

\* steps.map(...) of processStepImages
processStepImages(steps, compressImages) ==
    JArr([i \in 1..Len(steps.v) |->
        LET step == steps.v[i]
            imageData == Prop(step, "imageData")
        IN IF Falsy(imageData) THEN step
           ELSE IF compressImages
                THEN With(step, "imageData",
                          JStr(autoCompress(imageData.v, IMAGE_COMPRESSION_THRESHOLD)))
                ELSE With(step, "imageData", JStr(autoDecompress(imageData.v)))])

getWorkflows_raw(ls) ==
    LET workflows == get(ls, "workflows")
    IN IF Falsy(workflows) THEN JArr(<<>>) ELSE workflows

getWorkflows(ls) ==
    LET workflows == get(ls, "workflows")
    IN IF Falsy(workflows) THEN JArr(<<>>)
       ELSE JArr([i \in 1..Len(workflows.v) |->
                With(workflows.v[i], "steps",
                     processStepImages(Prop(workflows.v[i], "steps"), FALSE))])

findIndex_none(a, id) == 0

\* a.findIndex(w => w.id === id): 0 stands for -1
findIndex(a, id) ==
    IF \E i \in 1..Len(a.v) : Prop(a.v[i], "id") = id
    THEN CHOOSE i \in 1..Len(a.v) :
            /\ Prop(a.v[i], "id") = id
            /\ \A j \in 1..(i - 1) : Prop(a.v[j], "id") # id
    ELSE 0

\* a.find(w => w.id === id) || null
find(a, id) == IF findIndex(a, id) = 0 THEN JNull ELSE a.v[findIndex(a, id)]

\* a.filter(w => w.id !== id)
RECURSIVE filterOut(_, _)
filterOut(s, id) ==
    IF s = <<>> THEN <<>>
    ELSE IF Prop(Head(s), "id") # id
         THEN <<Head(s)>> \o filterOut(Tail(s), id)
         ELSE filterOut(Tail(s), id)

getWorkflowById(ls, id) == find(getWorkflows(ls), id)

saveWorkflow_push(ls, workflow, quota) ==
    LET workflows == getWorkflows(ls)
        workflowWithCompressedImages ==
            With(workflow, "steps", processStepImages(Prop(workflow, "steps"), TRUE))
        added == With(With(workflowWithCompressedImages, "createdAt", JNum(now)),
                      "updatedAt", JNum(now))
    IN set(ls, "workflows", JArr(Append(workflows.v, added)), quota)

\* WorkflowStorage.saveWorkflow
saveWorkflow(ls, workflow, quota) ==
    LET workflows == getWorkflows(ls)
        index == findIndex(workflows, Prop(workflow, "id"))
        workflowWithCompressedImages ==
            With(workflow, "steps", processStepImages(Prop(workflow, "steps"), TRUE))
        updated == With(workflowWithCompressedImages, "updatedAt", JNum(now))
        added == With(With(workflowWithCompressedImages, "createdAt", JNum(now)),
                      "updatedAt", JNum(now))
    IN IF index > 0
       THEN set(ls, "workflows", JArr([workflows.v EXCEPT ![index] = updated]), quota)
       ELSE set(ls, "workflows", JArr(Append(workflows.v, added)), quota)

deleteWorkflow_always(ls, id, quota) ==
    set(ls, "workflows", JArr(filterOut(getWorkflows(ls).v, id)), quota)

\* WorkflowStorage.deleteWorkflow
deleteWorkflow(ls, id, quota) ==
    LET workflows == getWorkflows(ls)
        newWorkflows == JArr(filterOut(workflows.v, id))
    IN IF Len(newWorkflows.v) < Len(workflows.v)
       THEN set(ls, "workflows", newWorkflows, quota)
       ELSE [ret |-> FALSE, ls |-> ls, data |-> JUndef]

\* WorkflowStorage.createNewWorkflow(title), Date.now() reading t
createNewWorkflow(title, t) ==
    JObj([id |-> JStr(<<Ch("workflow-" \o ToString(t))>>), title |-> title,
          steps |-> JArr(<<>>), createdAt |-> JNum(t), updatedAt |-> JNum(t)])

saveWorkflowFrom_reread(workflows, ls, workflow, quota) == saveWorkflow(ls, workflow, quota)

\* WorkflowStorage.saveWorkflow from its second statement on, workflows being
\* what its first statement, this.getWorkflows(), returned
saveWorkflowFrom(workflows, ls, workflow, quota) ==
    LET index == findIndex(workflows, Prop(workflow, "id"))
        workflowWithCompressedImages ==
            With(workflow, "steps", processStepImages(Prop(workflow, "steps"), TRUE))
        updated == With(workflowWithCompressedImages, "updatedAt", JNum(now))
        added == With(With(workflowWithCompressedImages, "createdAt", JNum(now)),
                      "updatedAt", JNum(now))
    IN IF index > 0
       THEN set(ls, "workflows", JArr([workflows.v EXCEPT ![index] = updated]), quota)
       ELSE set(ls, "workflows", JArr(Append(workflows.v, added)), quota)

\* WorkflowStorage.optimizeImageStorage: [ret, ls], ret the number of images
\* autoCompress changed.  The collection is this.get(), with the images as
\* they are stored.
optimizeImageStorage(ls, quota) ==
    LET stored == get(ls, "workflows")
        workflows == IF Falsy(stored) THEN JArr(<<>>) ELSE stored
        compressedImageData(step) ==
            JStr(autoCompress(Prop(step, "imageData").v, IMAGE_COMPRESSION_THRESHOLD))
        changed(step) ==
            /\ ~Falsy(Prop(step, "imageData"))
            /\ compressedImageData(step) # Prop(step, "imageData")
        optimizedSteps(workflow) ==
            JArr([i \in 1..Len(Prop(workflow, "steps").v) |->
                LET step == Prop(workflow, "steps").v[i]
                IN IF changed(step)
                   THEN With(step, "imageData", compressedImageData(step))
                   ELSE step])
        optimizedWorkflows ==
            JArr([j \in 1..Len(workflows.v) |->
                With(workflows.v[j], "steps", optimizedSteps(workflows.v[j]))])
        compressedCount ==
            Cardinality(UNION {{<<j, i>> : i \in {i \in 1..Len(Prop(workflows.v[j], "steps").v) :
                                                  changed(Prop(workflows.v[j], "steps").v[i])}} :
                               j \in 1..Len(workflows.v)})
    IN [ret |-> compressedCount,
        ls |-> IF compressedCount > 0
               THEN set(ls, "workflows", optimizedWorkflows, quota).ls
               ELSE ls]

\* ------------------------------------------------ legacy lib/storageService

\* getWorkflows of the legacy service: data ? JSON.parse(data) : [], and []
\* when JSON.parse throws
getOldWorkflows(ls) ==
    LET data == getItem(ls, STORAGE_KEYS_WORKFLOWS)
    IN IF ~data.present \/ data.s = <<>> THEN JArr(<<>>)
       ELSE IF parse(data.s).ok THEN parse(data.s).x ELSE JArr(<<>>)

\* saveWorkflow of the legacy service: the storage afterwards.  On a value
\* that is no array, findIndex throws and the catch leaves storage alone.
oldSaveWorkflow(ls, workflow, quota) ==
    LET workflows == getOldWorkflows(ls)
    IN IF ~isArray(workflows) \/ quota THEN ls
       ELSE LET index == findIndex(workflows, Prop(workflow, "id"))
                updated == With(workflow, "updatedAt", JNum(now))
                added == With(With(workflow, "createdAt", JNum(now)),
                              "updatedAt", JNum(now))
                newWorkflows ==
                    IF index > 0 THEN JArr([workflows.v EXCEPT ![index] = updated])
                    ELSE JArr(Append(workflows.v, added))
            IN setItem(ls, STORAGE_KEYS_WORKFLOWS, stringify(newWorkflows))

\* deleteWorkflow of the legacy service: the storage afterwards.  On a value
\* that is no array, filter throws and the catch leaves storage alone.
oldDeleteWorkflow(ls, id) ==
    LET workflows == getOldWorkflows(ls)
    IN IF ~isArray(workflows) THEN ls
       ELSE LET newWorkflows == JArr(filterOut(workflows.v, id))
            IN IF Len(newWorkflows.v) < Len(workflows.v)
               THEN setItem(ls, STORAGE_KEYS_WORKFLOWS, stringify(newWorkflows))
               ELSE ls

migrateWorkflow_idAsTitle(oldWorkflow) ==
    JObj([id |-> Prop(oldWorkflow, "id"),
          title |-> Prop(oldWorkflow, "id"),
          steps |-> Prop(oldWorkflow, "steps"),
          createdAt |-> Prop(oldWorkflow, "createdAt"),
          updatedAt |-> Prop(oldWorkflow, "updatedAt")])

\* the oldWorkflows.map(...) of migrateFromOldFormat: every field is copied
migrateWorkflow(oldWorkflow) ==
    JObj([id |-> Prop(oldWorkflow, "id"),
          title |-> Prop(oldWorkflow, "title"),
          steps |-> JArr([i \in 1..Len(Prop(oldWorkflow, "steps").v) |->
              LET oldStep == Prop(oldWorkflow, "steps").v[i]
              IN JObj([id |-> Prop(oldStep, "id"),
                       title |-> Prop(oldStep, "title"),
                       description |-> Prop(oldStep, "description"),
                       imageData |-> Prop(oldStep, "imageData"),
                       purpose |-> Prop(oldStep, "purpose"),
                       expectedOutcome |-> Prop(oldStep, "expectedOutcome"),
                       prerequisiteSteps |-> Prop(oldStep, "prerequisiteSteps"),
                       dependentSteps |-> Prop(oldStep, "dependentSteps"),
                       category |-> Prop(oldStep, "category"),
                       createdAt |-> Prop(oldStep, "createdAt"),
                       updatedAt |-> Prop(oldStep, "updatedAt")])]),
          createdAt |-> Prop(oldWorkflow, "createdAt"),
          updatedAt |-> Prop(oldWorkflow, "updatedAt")])

\* WorkflowStorage.migrateFromOldFormat
migrateFromOldFormat(ls, quota) ==
    LET oldWorkflows == getOldWorkflows(ls)
    IN IF Falsy(oldWorkflows) \/ ~isArray(oldWorkflows) \/ Len(oldWorkflows.v) = 0
       THEN [ret |-> FALSE, ls |-> ls, data |-> JUndef]
       ELSE LET workflows ==
                    JArr([i \in 1..Len(oldWorkflows.v) |-> migrateWorkflow(oldWorkflows.v[i])])
                workflowsWithCompressedImages ==
                    JArr([i \in 1..Len(workflows.v) |->
                        With(workflows.v[i], "steps",
                             processStepImages(Prop(workflows.v[i], "steps"), TRUE))])
            IN set(ls, "workflows", workflowsWithCompressedImages, quota)

\* -------------------------------------------------------- AnnotationStorage

\* x || {}
OrEmpty(x) == IF Falsy(x) THEN JObj(<<>>) ELSE x

\* x || null
OrNull(x) == IF Falsy(x) THEN JNull ELSE x

\* delete x[f]
Del(x, f) == JObj([g \in DOMAIN x.v \ {f} |-> x.v[g]])

\* f in x, for an object x (on anything else the operator throws)
In(f, x) == x.k = "object" /\ f \in DOMAIN x.v

\* the own property names of x
OwnKeys(x) == IF x.k = "object" THEN DOMAIN x.v ELSE {}

getWorkflowAnnotations(ls, workflowId) ==
    LET allAnnotations == OrEmpty(get(ls, "annotations"))
    IN OrNull(Prop(allAnnotations, workflowId))

getStepAnnotation(ls, workflowId, stepId) ==
    LET workflowAnnotations == getWorkflowAnnotations(ls, workflowId)
    IN IF Falsy(workflowAnnotations) THEN JNull
       ELSE OrNull(Prop(workflowAnnotations, stepId))

\* AnnotationStorage.saveStepAnnotation; assigning a property on a stored
\* value that is no object throws (class bodies are strict code), which the
\* catch answers with false
saveStepAnnotation(ls, workflowId, stepId, annotation, quota) ==
    LET allAnnotations == OrEmpty(get(ls, "annotations"))
        workflowAnnotations == OrEmpty(Prop(allAnnotations, workflowId))
    IN IF allAnnotations.k # "object" \/ workflowAnnotations.k # "object"
       THEN [ret |-> FALSE, ls |-> ls, data |-> JUndef]
       ELSE set(ls, "annotations",
                With(allAnnotations, workflowId,
                     With(workflowAnnotations, stepId,
                          With(annotation, "updatedAt", JNum(now)))),
                quota)

updateAnnotationField_fresh(ls, workflowId, stepId, field, value, quota) ==
    LET annotation == getStepAnnotation(ls, workflowId, stepId)
    IN IF Falsy(annotation) THEN [ret |-> FALSE, ls |-> ls, data |-> JUndef]
       ELSE saveStepAnnotation(ls, workflowId, stepId,
                With(JObj([id |-> Prop(annotation, "id"), title |-> Prop(annotation, "title"),
                           updatedAt |-> JNum(now)]),
                     field, value), quota)

\* AnnotationStorage.updateAnnotationField

updateAnnotationField(ls, workflowId, stepId, field, value, quota) ==
    LET annotation == getStepAnnotation(ls, workflowId, stepId)
    IN IF Falsy(annotation) THEN [ret |-> FALSE, ls |-> ls, data |-> JUndef]
       ELSE saveStepAnnotation(ls, workflowId, stepId,
                With(With(annotation, field, value), "updatedAt", JNum(now)), quota)

updateStepRelationships_append(ls, workflowId, stepId, prerequisites, dependents, quota) ==
    LET annotation == getStepAnnotation(ls, workflowId, stepId)
        added(f, given) ==
            IF Prop(annotation, f).k = "array" THEN JArr(Prop(annotation, f).v \o given.v)
            ELSE given
    IN IF Falsy(annotation) THEN [ret |-> FALSE, ls |-> ls, data |-> JUndef]
       ELSE saveStepAnnotation(ls, workflowId, stepId,
                With(With(With(annotation, "prerequisiteSteps",
                               added("prerequisiteSteps", prerequisites)),
                          "dependentSteps", added("dependentSteps", dependents)),
                     "updatedAt", JNum(now)), quota)

\* AnnotationStorage.updateStepRelationships

updateStepRelationships(ls, workflowId, stepId, prerequisites, dependents, quota) ==
    LET annotation == getStepAnnotation(ls, workflowId, stepId)
    IN IF Falsy(annotation) THEN [ret |-> FALSE, ls |-> ls, data |-> JUndef]
       ELSE saveStepAnnotation(ls, workflowId, stepId,
                With(With(With(annotation, "prerequisiteSteps", prerequisites),
                          "dependentSteps", dependents),
                     "updatedAt", JNum(now)), quota)

\* x && x.length > 0
HasLength(x) == ~Falsy(x) /\ x.k \in {"array", "string"} /\ Len(x.v) > 0

NoStats ==
    [total |-> 0, withPurpose |-> 0, withOutcome |-> 0, withCategory |-> 0,
     withRelationships |-> 0, completeness |-> [num |-> 0, den |-> 1]]

\* the five counts of getAnnotationStats over the steps of workflowAnnotations
countSteps(workflowAnnotations) ==
    LET steps == OwnKeys(workflowAnnotations)
        step(f) == workflowAnnotations.v[f]
    IN [total |-> Cardinality(steps),
        withPurpose |-> Cardinality({f \in steps : ~Falsy(Prop(step(f), "purpose"))}),
        withOutcome |->
            Cardinality({f \in steps : ~Falsy(Prop(step(f), "expectedOutcome"))}),
        withCategory |-> Cardinality({f \in steps : ~Falsy(Prop(step(f), "category"))}),
        withRelationships |->
            Cardinality({f \in steps :
                \/ HasLength(Prop(step(f), "prerequisiteSteps"))
                \/ HasLength(Prop(step(f), "dependentSteps"))})]

getAnnotationStats_perStep(ls, workflowId) ==
    LET workflowAnnotations == getWorkflowAnnotations(ls, workflowId)
        c == countSteps(workflowAnnotations)
        filledFields == c.withPurpose + c.withOutcome + c.withCategory + c.withRelationships
    IN IF Falsy(workflowAnnotations) \/ c.total = 0 THEN NoStats
       ELSE [total |-> c.total, withPurpose |-> c.withPurpose, withOutcome |-> c.withOutcome,
             withCategory |-> c.withCategory, withRelationships |-> c.withRelationships,
             completeness |-> [num |-> filledFields * 100, den |-> c.total]]

\* AnnotationStorage.getAnnotationStats.  completeness, a quotient the code
\* computes in floating point, is kept as the fraction num / den.  Reading a
\* property of a null step throws, which the catch answers with zeros.
getAnnotationStats(ls, workflowId) ==
    LET workflowAnnotations == getWorkflowAnnotations(ls, workflowId)
        steps == OwnKeys(workflowAnnotations)
        c == countSteps(workflowAnnotations)
        total == c.total
        maxFields == total * 4
        filledFields == c.withPurpose + c.withOutcome + c.withCategory + c.withRelationships
    IN IF Falsy(workflowAnnotations) THEN NoStats
       ELSE IF total = 0 THEN NoStats
       ELSE IF \E f \in steps : workflowAnnotations.v[f].k \in {"null", "undefined"}
            THEN NoStats
       ELSE [total |-> total, withPurpose |-> c.withPurpose, withOutcome |-> c.withOutcome,
             withCategory |-> c.withCategory, withRelationships |-> c.withRelationships,
             completeness |-> [num |-> filledFields * 100, den |-> maxFields]]

\* AnnotationStorage.deleteWorkflowAnnotations
deleteWorkflowAnnotations(ls, workflowId, quota) ==
    LET allAnnotations == OrEmpty(get(ls, "annotations"))
    IN IF ~In(workflowId, allAnnotations) THEN [ret |-> FALSE, ls |-> ls, data |-> JUndef]
       ELSE set(ls, "annotations", Del(allAnnotations, workflowId), quota)

\* AnnotationStorage.deleteStepAnnotation
deleteStepAnnotation(ls, workflowId, stepId, quota) ==
    LET allAnnotations == OrEmpty(get(ls, "annotations"))
        workflowAnnotations == Prop(allAnnotations, workflowId)
    IN IF Falsy(workflowAnnotations) \/ ~In(stepId, workflowAnnotations)
       THEN [ret |-> FALSE, ls |-> ls, data |-> JUndef]
       ELSE set(ls, "annotations",
                With(allAnnotations, workflowId, Del(workflowAnnotations, stepId)), quota)

\* ------------------------------------------------------- PreferencesStorage

\* a string value with the text t
Text(t) == JStr(<<Ch(t)>>)

\* DEFAULT_PREFERENCES; lastUpdated is Date.now() when the module is loaded
DEFAULT_PREFERENCES ==
    JObj([theme |-> JObj([darkMode |-> JBool(FALSE),
                          colorScheme |-> Text("default"),
                          fontSize |-> Text("medium")]),
          editor |-> JObj([autoSave |-> JBool(TRUE),
                           autoSaveInterval |-> JNum(30000),
                           showLineNumbers |-> JBool(TRUE),
                           defaultCategory |-> Text("input")]),
          export |-> JObj([format |-> Text("json"),
                           includeScreenshots |-> JBool(TRUE),
                           includeMetadata |-> JBool(TRUE),
                           namingTemplate |-> Text("{title}_{date}"),
                           exportDirectory |-> Text("exports")]),
          lastUsedModel |-> Text("gpt-4o"),
          recentWorkflows |-> JArr(<<>>),
          lastUpdated |-> JNum(1)])

\* { ...x, ...y }: the own properties of x overlaid with those of y; null,
\* undefined, numbers and booleans spread to nothing
Fields(x) == IF x.k = "object" THEN x.v ELSE <<>>

Spread(x, y) ==
    JObj([f \in DOMAIN Fields(x) \cup DOMAIN Fields(y) |->
            IF f \in DOMAIN Fields(y) THEN Fields(y)[f] ELSE Fields(x)[f]])

\* x || y
Or(x, y) == IF Falsy(x) THEN y ELSE x

\* PreferencesStorage.getPreferences
getPreferences(ls) ==
    LET savedPreferences == get(ls, "preferences")
    IN IF Falsy(savedPreferences) THEN DEFAULT_PREFERENCES
       ELSE JObj([theme |-> Spread(Prop(DEFAULT_PREFERENCES, "theme"),
                                   Prop(savedPreferences, "theme")),
                  editor |-> Spread(Prop(DEFAULT_PREFERENCES, "editor"),
                                    Prop(savedPreferences, "editor")),
                  export |-> Spread(Prop(DEFAULT_PREFERENCES, "export"),
                                    Prop(savedPreferences, "export")),
                  lastUsedModel |-> Or(Prop(savedPreferences, "lastUsedModel"),
                                       Prop(DEFAULT_PREFERENCES, "lastUsedModel")),
                  recentWorkflows |-> Or(Prop(savedPreferences, "recentWorkflows"),
                                         Prop(DEFAULT_PREFERENCES, "recentWorkflows")),
                  lastUpdated |-> Or(Prop(savedPreferences, "lastUpdated"), JNum(now))])

updateThemePreferences_replace(ls, themePrefs, quota) ==
    set(ls, "preferences",
        With(With(getPreferences(ls), "theme", themePrefs), "lastUpdated", JNum(now)), quota)

\* PreferencesStorage.updateThemePreferences
updateThemePreferences(ls, themePrefs, quota) ==
    LET currentPrefs == getPreferences(ls)
        updatedPrefs ==
            With(With(currentPrefs, "theme", Spread(Prop(currentPrefs, "theme"), themePrefs)),
                 "lastUpdated", JNum(now))
    IN set(ls, "preferences", updatedPrefs, quota)

\* PreferencesStorage.updateEditorPreferences
updateEditorPreferences(ls, editorPrefs, quota) ==
    LET currentPrefs == getPreferences(ls)
        updatedPrefs ==
            With(With(currentPrefs, "editor", Spread(Prop(currentPrefs, "editor"), editorPrefs)),
                 "lastUpdated", JNum(now))
    IN set(ls, "preferences", updatedPrefs, quota)

\* PreferencesStorage.updateExportPreferences
updateExportPreferences(ls, exportPrefs, quota) ==
    LET currentPrefs == getPreferences(ls)
        updatedPrefs ==
            With(With(currentPrefs, "export", Spread(Prop(currentPrefs, "export"), exportPrefs)),
                 "lastUpdated", JNum(now))
    IN set(ls, "preferences", updatedPrefs, quota)

\* PreferencesStorage.setLastUsedModel
setLastUsedModel(ls, modelId, quota) ==
    LET currentPrefs == getPreferences(ls)
    IN set(ls, "preferences",
           With(With(currentPrefs, "lastUsedModel", modelId), "lastUpdated", JNum(now)), quota)

\* a.filter(id => id !== workflowId)
RECURSIVE without(_, _)
without(a, workflowId) ==
    IF a = <<>> THEN <<>>
    ELSE IF Head(a) # workflowId THEN <<Head(a)>> \o without(Tail(a), workflowId)
         ELSE without(Tail(a), workflowId)

\* a.slice(0, n)
slice(a, n) == IF Len(a) > n THEN SubSeq(a, 1, n) ELSE a

addRecentWorkflow_append(ls, workflowId, quota) ==
    LET currentPrefs == getPreferences(ls)
        recentWorkflows == Or(Prop(currentPrefs, "recentWorkflows"), JArr(<<>>))
    IN IF ~isArray(recentWorkflows) THEN [ret |-> FALSE, ls |-> ls, data |-> JUndef]
       ELSE set(ls, "preferences",
                With(With(currentPrefs, "recentWorkflows",
                          JArr(slice(Append(without(recentWorkflows.v, workflowId),
                                            workflowId), MAX_RECENT_WORKFLOWS))),
                     "lastUpdated", JNum(now)), quota)

\* PreferencesStorage.addRecentWorkflow; filter on a stored value that is no
\* array throws, which the catch answers with false
addRecentWorkflow(ls, workflowId, quota) ==
    LET currentPrefs == getPreferences(ls)
        recentWorkflows == Or(Prop(currentPrefs, "recentWorkflows"), JArr(<<>>))
    IN IF ~isArray(recentWorkflows) THEN [ret |-> FALSE, ls |-> ls, data |-> JUndef]
       ELSE LET filtered == without(recentWorkflows.v, workflowId)
                unshifted == <<workflowId>> \o filtered
                kept == IF Len(unshifted) > MAX_RECENT_WORKFLOWS
                        THEN slice(unshifted, MAX_RECENT_WORKFLOWS)
                        ELSE unshifted
            IN set(ls, "preferences",
                   With(With(currentPrefs, "recentWorkflows", JArr(kept)),
                        "lastUpdated", JNum(now)), quota)

\* PreferencesStorage.resetToDefaults
resetToDefaults(ls, quota) == set(ls, "preferences", DEFAULT_PREFERENCES, quota)

\* ------------------------------------------------------------------ inputs

S(c) == JStr(<<Ch(c)>>)

\* The strings handed to a stand-alone codec: plain ones (the empty one too),
\* the bare marker, and the marker followed by text the library never produced.
BaseStrings ==
    {Rep("a", n) : n \in 0..MaxLen}
        \cup {COMPRESSION_MARKER, COMPRESSION_MARKER \o Rep("a", 1)}

\* The thresholds a codec or a store is given.
Thresholds == {0, 4, TEST_COMPRESSION_THRESHOLD, DEFAULT_COMPRESSION_THRESHOLD}

\* The number of compress() layers around a string.
RECURSIVE Layers(_)
Layers(s) ==
    IF isCompressed(s) /\ Len(s) = Len(COMPRESSION_MARKER) + 1 /\ s[Len(s)].k = "lz"
    THEN 1 + Layers(s[Len(s)].v)
    ELSE 0

\* Image data as the uploader produces it (a data URI, which never begins with
\* the marker): below the image threshold, and above it even once compressed.
ShortImage == Rep("a", 1)
LongImage == Rep("a", IMAGE_COMPRESSION_THRESHOLD)

Step(imageData) ==
    JObj([id |-> S("s"), title |-> S("x"), imageData |-> JStr(imageData),
          createdAt |-> JNum(1), updatedAt |-> JNum(1)])

StepNoImage ==
    JObj([id |-> S("s"), title |-> S("x"), createdAt |-> JNum(1), updatedAt |-> JNum(1)])

Workflow(id, title, steps) ==
    JObj([id |-> S(id), title |-> title, steps |-> JArr(steps),
          createdAt |-> JNum(1), updatedAt |-> JNum(1)])

WorkflowIds == {"a", "b"}

StepsInputs == {<<StepNoImage>>, <<Step(ShortImage)>>, <<Step(LongImage)>>}

\* Well-shaped workflows, and one whose title is no string.
ValidWorkflows ==
    {Workflow("a", S(title), steps) : title \in {"t", "u"}, steps \in StepsInputs}
        \cup {Workflow("b", S("t"), steps) : steps \in StepsInputs}

InvalidWorkflows == {Workflow("a", JNum(1), <<>>)}

\* What the legacy service is asked to save.
LegacyWorkflows ==
    {Workflow(id, S("t"), steps) :
        id \in WorkflowIds, steps \in {<<StepNoImage>>, <<Step(LongImage)>>}}

\* Values handed to set(): of the plain store, any JSON data; of the workflow
\* store, collections.  The invalid ones are those validateData is to reject.
InvalidValues(st) ==
    IF st = "workflows"
    THEN {JNull, JUndef, JObj([id |-> S("a")]), JArr(<<JNull>>),
          JArr(<<Workflow("a", JNum(1), <<>>)>>)}
    ELSE {JNull, JUndef}

ValidValues(st) ==
    IF st = "workflows"
    THEN {JArr(<<>>), JArr(<<Workflow("a", S("t"), <<>>)>>),
          JArr(<<Workflow("a", S("t"), <<Step(compress(LongImage))>>)>>)}
    ELSE {JNum(0), JStr(<<>>), JBool(FALSE), JArr(<<>>),
          JArr(<<S("a"), S("b")>>), JObj([data |-> JStr(Rep("a", 5))])}

\* Strings other code, or a fault, leaves under a store's key: text that is
\* no JSON, JSON that is no envelope, a marker in front of either.
ForeignStrings ==
    {<<>>, <<Ch("x")>>,
     stringify(JNull), stringify(JNum(5)),
     stringify(JArr(<<>>)), stringify(JArr(<<Workflow("a", S("t"), <<>>)>>)),
     stringify(JObj([data |-> JNum(7)])),
     COMPRESSION_MARKER \o <<Ch("x")>>, compress(<<Ch("x")>>)}

\* ----------------------------------------------------------------- actions

\* The browser tabs that have the application open, and a tab in which no
\* saveWorkflow call is under way.
Tabs == {1, 2}

Idle == [pc |-> "idle", workflow |-> JUndef, workflows |-> JUndef, ret |-> JUndef]

Call(op, st, arg, ret, pre, quota) ==
    [op |-> op, st |-> st, arg |-> arg, ret |-> ret, pre |-> pre, quota |-> quota]

NoSet == [valid |-> FALSE, v |-> JUndef]

InitWith(st, s) ==
    /\ localStorage = [key \in Keys |-> NoItem]
    /\ useCompression = [store \in AllStores |-> TRUE]
    /\ threshold = [c \in AllStores \cup {"codec"} |-> DEFAULT_COMPRESSION_THRESHOLD]
    /\ now = 1
    /\ cur = s
    /\ lastSet = [store \in AllStores |-> NoSet]
    /\ last = Call("new", st, JUndef, JUndef, NoItem, FALSE)
    /\ tabs = [tab \in Tabs |-> Idle]

\* Date.now() advances
Tick ==
    /\ now < MaxClock
    /\ now' = now + 1
    /\ UNCHANGED <<localStorage, useCompression, threshold, cur, lastSet, last, tabs>>

\* --- a stand-alone CompressionService, applied to cur

CodecCall(op, result) ==
    /\ cur' = result
    /\ last' = Call(op, "codec", JStr(cur), JStr(result), NoItem, FALSE)
    /\ UNCHANGED <<localStorage, useCompression, threshold, now, lastSet, tabs>>

CodecCompress == Layers(cur) < MaxLayers /\ CodecCall("compress", compress(cur))

CodecDecompress ==
    \E result \in {decompress(cur)} : CodecCall("decompress", result)

CodecAutoCompress ==
    /\ Layers(cur) < MaxLayers
    /\ CodecCall("autoCompress", autoCompress(cur, threshold["codec"]))

CodecAutoDecompress ==
    \E result \in {autoDecompress(cur)} : CodecCall("autoDecompress", result)

CodecSetThreshold ==
    \E thr \in Thresholds :
        /\ threshold' = [threshold EXCEPT !["codec"] = thr]
        /\ last' = Call("setThreshold", "codec", JNum(thr), JUndef, NoItem, FALSE)
        /\ UNCHANGED <<localStorage, useCompression, now, cur, lastSet, tabs>>

InitCodec == \E s \in BaseStrings : InitWith("codec", s)

NextCodec ==
    \/ CodecCompress
    \/ CodecDecompress
    \/ CodecAutoCompress
    \/ CodecAutoDecompress
    \/ CodecSetThreshold

SpecCodec == InitCodec /\ [][NextCodec]_vars

\* --- a store instance, used through the StorageModule interface.  The
\* instance in use is last.st, chosen when the page loads.

\* store.set(v); setItem may throw (quota)
StoreSet ==
    \E v \in ValidValues(last.st) \cup InvalidValues(last.st), quota \in BOOLEAN :
        LET st == last.st
            r == set(localStorage, st, v, quota)
        IN /\ localStorage' = r.ls
           /\ lastSet' = IF r.ret THEN [lastSet EXCEPT ![st] = [valid |-> TRUE, v |-> v]]
                         ELSE lastSet
           /\ last' = Call("set", st, v, JBool(r.ret),
                           getItem(localStorage, storageKey(st)), quota)
           /\ UNCHANGED <<useCompression, threshold, now, cur, tabs>>

\* store.remove()
StoreRemove ==
    LET st == last.st
    IN /\ localStorage' = removeItem(localStorage, storageKey(st))
       /\ lastSet' = [lastSet EXCEPT ![st] = NoSet]
       /\ last' = Call("remove", st, JUndef, JBool(TRUE),
                       getItem(localStorage, storageKey(st)), FALSE)
       /\ UNCHANGED <<useCompression, threshold, now, cur, tabs>>

\* store.setCompression(enabled)
StoreSetCompression ==
    \E enabled \in BOOLEAN :
        /\ useCompression' = [useCompression EXCEPT ![last.st] = enabled]
        /\ last' = Call("setCompression", last.st, JBool(enabled), JUndef,
                        getItem(localStorage, storageKey(last.st)), FALSE)
        /\ UNCHANGED <<localStorage, threshold, now, cur, lastSet, tabs>>

\* store.setCompressionThreshold(thresholdBytes)
StoreSetCompressionThreshold ==
    \E thresholdBytes \in Thresholds :
        /\ threshold' = [threshold EXCEPT ![last.st] = thresholdBytes]
        /\ last' = Call("setCompressionThreshold", last.st, JNum(thresholdBytes), JUndef,
                        getItem(localStorage, storageKey(last.st)), FALSE)
        /\ UNCHANGED <<localStorage, useCompression, now, cur, lastSet, tabs>>

\* Something other than the store writes the store's key.
ForeignWrite ==
    \E s \in ForeignStrings :
        LET st == last.st
        IN /\ localStorage' = setItem(localStorage, storageKey(st), s)
           /\ lastSet' = [lastSet EXCEPT ![st] = NoSet]
           /\ last' = Call("foreignWrite", st, JStr(s), JUndef,
                           getItem(localStorage, storageKey(st)), FALSE)
           /\ UNCHANGED <<useCompression, threshold, now, cur, tabs>>

InitStore == \E st \in Stores : InitWith(st, <<>>)

NextStore ==
    \/ StoreSet
    \/ StoreRemove
    \/ StoreSetCompression
    \/ StoreSetCompressionThreshold
    \/ ForeignWrite
    \/ Tick

SpecStore == InitStore /\ [][NextStore]_vars

\* --- the workflow store, beside the legacy service that shares its key

WorkflowCall(op, arg, r, quota) ==
    /\ localStorage' = r.ls
    /\ last' = Call(op, "workflows", arg, JBool(r.ret),
                    getItem(localStorage, storageKey("workflows")), quota)
    /\ UNCHANGED <<useCompression, threshold, now, cur, lastSet, tabs>>

\* workflowStorage.saveWorkflow(workflow)
SaveWorkflow ==
    \E workflow \in ValidWorkflows \cup InvalidWorkflows, quota \in BOOLEAN :
        /\ workflow \in ValidWorkflows \cup InvalidWorkflows
        /\ WorkflowCall("saveWorkflow", workflow,
                        saveWorkflow(localStorage, workflow, quota), quota)

\* workflowStorage.deleteWorkflow(id)
DeleteWorkflow ==
    \E id \in WorkflowIds, quota \in BOOLEAN :
        /\ id \in WorkflowIds
        /\ WorkflowCall("deleteWorkflow", S(id),
                        deleteWorkflow(localStorage, S(id), quota), quota)

\* workflowStorage.migrateFromOldFormat()
MigrateFromOldFormat ==
    \E quota \in BOOLEAN :
        /\ quota \in BOOLEAN
        /\ WorkflowCall("migrateFromOldFormat", JUndef,
                        migrateFromOldFormat(localStorage, quota), quota)

\* saveWorkflow(workflow) of the legacy service, which the viewer pages still use
OldSaveWorkflow ==
    \E workflow \in LegacyWorkflows :
        /\ workflow \in LegacyWorkflows
        /\ WorkflowCall("oldSaveWorkflow", workflow,
                        [ret |-> TRUE, ls |-> oldSaveWorkflow(localStorage, workflow, FALSE)],
                        FALSE)

\* deleteWorkflow(id) of the legacy service
OldDeleteWorkflow ==
    \E id \in WorkflowIds :
        /\ id \in WorkflowIds
        /\ WorkflowCall("oldDeleteWorkflow", S(id),
                        [ret |-> TRUE, ls |-> oldDeleteWorkflow(localStorage, S(id))],
                        FALSE)

Init == InitWith("workflows", <<>>)

Next ==
    \/ SaveWorkflow
    \/ DeleteWorkflow
    \/ MigrateFromOldFormat
    \/ OldSaveWorkflow
    \/ OldDeleteWorkflow

Spec == Init /\ [][Next]_vars

\* The storage as it was before the last call on the workflow store.
Before == [localStorage EXCEPT ![storageKey("workflows")] = last.pre]

\* --- the three domain stores, each on its own key.  The store in use is
\* last.st; the other two keys hold what those stores wrote earlier, or nothing.

StepIds == {"s", "r"}

\* the text of a one-run string value
TextOf(x) == x.v[1].v

\* A step annotation as the annotation editor first saves it.
Annotation(stepId) ==
    JObj([id |-> S(stepId), title |-> S("x"), createdAt |-> JNum(1), updatedAt |-> JNum(1)])

\* The (workflow, step) pairs annotations are saved under.
AnnotationSlots == {<<"a", "s">>, <<"a", "r">>, <<"b", "s">>}

\* The (step, field, value) triples updateAnnotationField is given, on
\* workflow "a": a purpose, empty or not, an outcome and a category.
FieldInputs ==
    {<<"s", "purpose", JStr(<<>>)>>, <<"s", "purpose", S("x")>>,
     <<"r", "expectedOutcome", S("x")>>, <<"r", "category", Text("input")>>}

\* The prerequisites and dependents updateStepRelationships is given.
Relationships ==
    {<<JArr(<<>>), JArr(<<>>)>>, <<JArr(<<S("r")>>), JArr(<<>>)>>, <<JArr(<<>>), JArr(<<S("r")>>)>>}

ThemeInputs == {JObj([colorScheme |-> Text("blue"), fontSize |-> Text("large")])}

EditorInputs == {JObj([autoSaveInterval |-> JNum(0)])}

ExportInputs == {JObj([format |-> Text("csv")])}

ModelInputs == {JStr(<<>>)}

\* One workflow id more than recentWorkflows keeps.
RecentNames == <<"a", "b", "c", "d", "e">>

RecentIds == {S(RecentNames[i]) : i \in 1..(MAX_RECENT_WORKFLOWS + 1)}

\* What an earlier version of the application, or a fault, leaves under the
\* preferences key: records lacking sub-objects or fields, and corrupted text.
PartialPreferences ==
    {JObj([theme |-> JObj([darkMode |-> JBool(TRUE)]), lastUpdated |-> JNum(1)]),
     JObj([theme |-> JObj(<<>>), editor |-> JObj(<<>>), export |-> JObj(<<>>),
           lastUsedModel |-> Text("m"), lastUpdated |-> JNum(1)]),
     JObj([editor |-> JObj([autoSave |-> JBool(FALSE)]),
           recentWorkflows |-> JArr(<<S("a")>>)])}

PreferencesStrings ==
    {<<Ch("x")>>, stringify(JArr(<<>>)), stringify(JObj([data |-> JNum(7)]))}
        \cup {stringify(wrapData(x)) : x \in PartialPreferences}

DomainCall(op, st, arg, r, quota) ==
    /\ last.st = st
    /\ localStorage' = r.ls
    /\ last' = Call(op, st, arg, JBool(r.ret), getItem(localStorage, storageKey(st)), quota)
    /\ UNCHANGED <<useCompression, threshold, now, cur, lastSet, tabs>>

\* annotationStorage.saveStepAnnotation(workflowId, stepId, annotation)
SaveStepAnnotation ==
    \E slot \in AnnotationSlots, quota \in BOOLEAN :
        /\ slot \in AnnotationSlots
        /\ DomainCall("saveStepAnnotation", "annotations",
                      JObj([workflowId |-> S(slot[1]), stepId |-> S(slot[2])]),
                      saveStepAnnotation(localStorage, slot[1], slot[2],
                                         Annotation(slot[2]), quota), quota)

\* annotationStorage.updateAnnotationField(workflowId, stepId, field, value)
UpdateAnnotationField ==
    \E input \in FieldInputs, quota \in BOOLEAN :
        /\ input \in FieldInputs
        /\ DomainCall("updateAnnotationField", "annotations",
                      JObj([workflowId |-> S("a"), stepId |-> S(input[1]),
                            field |-> S(input[2]), value |-> input[3]]),
                      updateAnnotationField(localStorage, "a", input[1], input[2], input[3],
                                            quota),
                      quota)

\* annotationStorage.updateStepRelationships(workflowId, stepId, prerequisites, dependents)
UpdateStepRelationships ==
    \E rel \in Relationships, quota \in BOOLEAN :
        /\ rel \in Relationships
        /\ DomainCall("updateStepRelationships", "annotations",
                      JObj([workflowId |-> S("a"), stepId |-> S("s"),
                            prerequisites |-> rel[1], dependents |-> rel[2]]),
                      updateStepRelationships(localStorage, "a", "s", rel[1], rel[2], quota),
                      quota)

\* annotationStorage.deleteWorkflowAnnotations(workflowId)
DeleteWorkflowAnnotations ==
    \E workflowId \in WorkflowIds, quota \in BOOLEAN :
        /\ workflowId \in WorkflowIds
        /\ DomainCall("deleteWorkflowAnnotations", "annotations",
                      JObj([workflowId |-> S(workflowId)]),
                      deleteWorkflowAnnotations(localStorage, workflowId, quota), quota)

\* annotationStorage.deleteStepAnnotation(workflowId, stepId)
DeleteStepAnnotation ==
    \E slot \in AnnotationSlots, quota \in BOOLEAN :
        /\ slot \in AnnotationSlots
        /\ DomainCall("deleteStepAnnotation", "annotations",
                      JObj([workflowId |-> S(slot[1]), stepId |-> S(slot[2])]),
                      deleteStepAnnotation(localStorage, slot[1], slot[2], quota), quota)

\* preferencesStorage.updateThemePreferences(themePrefs)
UpdateThemePreferences ==
    \E themePrefs \in ThemeInputs, quota \in BOOLEAN :
        /\ themePrefs \in ThemeInputs
        /\ DomainCall("updateThemePreferences", "preferences", themePrefs,
                      updateThemePreferences(localStorage, themePrefs, quota), quota)

\* preferencesStorage.updateEditorPreferences(editorPrefs)
UpdateEditorPreferences ==
    \E editorPrefs \in EditorInputs, quota \in BOOLEAN :
        /\ editorPrefs \in EditorInputs
        /\ DomainCall("updateEditorPreferences", "preferences", editorPrefs,
                      updateEditorPreferences(localStorage, editorPrefs, quota), quota)

\* preferencesStorage.updateExportPreferences(exportPrefs)
UpdateExportPreferences ==
    \E exportPrefs \in ExportInputs, quota \in BOOLEAN :
        /\ exportPrefs \in ExportInputs
        /\ DomainCall("updateExportPreferences", "preferences", exportPrefs,
                      updateExportPreferences(localStorage, exportPrefs, quota), quota)

\* preferencesStorage.setLastUsedModel(modelId)
SetLastUsedModel ==
    \E modelId \in ModelInputs, quota \in BOOLEAN :
        /\ modelId \in ModelInputs
        /\ DomainCall("setLastUsedModel", "preferences", modelId,
                      setLastUsedModel(localStorage, modelId, quota), quota)

\* preferencesStorage.addRecentWorkflow(workflowId)
AddRecentWorkflow ==
    \E workflowId \in RecentIds, quota \in BOOLEAN :
        /\ workflowId \in RecentIds
        /\ DomainCall("addRecentWorkflow", "preferences", workflowId,
                      addRecentWorkflow(localStorage, workflowId, quota), quota)

\* preferencesStorage.resetToDefaults()
ResetToDefaults ==
    \E quota \in BOOLEAN :
        /\ quota \in BOOLEAN
        /\ DomainCall("resetToDefaults", "preferences", JUndef,
                      resetToDefaults(localStorage, quota), quota)

\* Something other than the store leaves a string under the preferences key.
PreferencesForeignWrite ==
    \E s \in PreferencesStrings :
        /\ s \in PreferencesStrings
        /\ DomainCall("foreignWrite", "preferences", JStr(s),
                      [ret |-> TRUE, ls |-> setItem(localStorage, storageKey("preferences"), s)],
                      FALSE)

\* What the three stores leave behind after one write each.
SeededStorage ==
    LET ls0 == [key \in Keys |-> NoItem]
        ls1 == resetToDefaults(ls0, FALSE).ls
        ls2 == saveStepAnnotation(ls1, "b", "s", Annotation("s"), FALSE).ls
    IN saveWorkflow(ls2, Workflow("b", S("t"), <<Step(LongImage)>>), FALSE).ls

InitDomain ==
    \E st \in DomainStores, seeded \in BOOLEAN :
        /\ useCompression = [store \in AllStores |-> TRUE]
        /\ threshold = [c \in AllStores \cup {"codec"} |-> DEFAULT_COMPRESSION_THRESHOLD]
        /\ now = 1
        /\ cur = <<>>
        /\ lastSet = [store \in AllStores |-> NoSet]
        /\ last = Call("new", st, JUndef, JUndef, NoItem, FALSE)
        /\ tabs = [tab \in Tabs |-> Idle]
        /\ localStorage = IF seeded THEN SeededStorage ELSE [key \in Keys |-> NoItem]

NextDomain ==
    \/ SaveStepAnnotation
    \/ UpdateAnnotationField
    \/ UpdateStepRelationships
    \/ DeleteWorkflowAnnotations
    \/ DeleteStepAnnotation
    \/ UpdateThemePreferences
    \/ UpdateEditorPreferences
    \/ UpdateExportPreferences
    \/ SetLastUsedModel
    \/ ResetToDefaults
    \/ PreferencesForeignWrite
    \/ (last.st = "workflows" /\ SaveWorkflow)
    \/ (last.st = "workflows" /\ DeleteWorkflow)

SpecDomain == InitDomain /\ [][NextDomain]_vars

\* --- the recent-workflows list of the preferences store, from the defaults

InitRecent ==
    /\ InitWith("preferences", <<>>)

NextRecent ==
    \/ AddRecentWorkflow
    \/ ResetToDefaults
    \/ UpdateThemePreferences

SpecRecent == InitRecent /\ [][NextRecent]_vars

\* The storage as it was before the last call on store last.st.
BeforeOf == [localStorage EXCEPT ![storageKey(last.st)] = last.pre]

\* --- two tabs on one localStorage, each inside saveWorkflow.  JavaScript
\* runs each tab's call to the end on its own thread; the storage is shared,
\* so another tab's write can fall between the read and the write of a call.

\* What a tab saves: one of the workflows, under the title this tab gave it.
TabWorkflows(tab) ==
    {Workflow(id, S(IF tab = 1 THEN "t" ELSE "u"), <<StepNoImage>>) : id \in WorkflowIds}

\* const workflows = this.getWorkflows()
TabRead ==
    \E tab \in Tabs : \E workflow \in TabWorkflows(tab) :
        /\ tabs[tab].pc \in {"idle", "done"}
        /\ tabs' = [tabs EXCEPT ![tab] = [pc |-> "read", workflow |-> workflow,
                                          workflows |-> getWorkflows(localStorage),
                                          ret |-> JUndef]]
        /\ UNCHANGED <<localStorage, useCompression, threshold, now, cur, lastSet, last>>

\* the rest of saveWorkflow, ending in return this.set(workflows)
TabWrite ==
    \E tab \in Tabs, quota \in BOOLEAN :
        /\ tabs[tab].pc = "read"
        /\ LET r == saveWorkflowFrom(tabs[tab].workflows, localStorage,
                                     tabs[tab].workflow, quota)
           IN /\ localStorage' = r.ls
              /\ tabs' = [tabs EXCEPT ![tab].pc = "done", ![tab].ret = JBool(r.ret)]
              /\ last' = Call("saveWorkflow", "workflows",
                              JObj([tab |-> JNum(tab), workflow |-> tabs[tab].workflow]),
                              JBool(r.ret),
                              getItem(localStorage, storageKey("workflows")), quota)
        /\ UNCHANGED <<useCompression, threshold, now, cur, lastSet>>

InitTabs == InitWith("workflows", <<>>)

NextTabs ==
    \/ TabRead
    \/ TabWrite

SpecTabs == InitTabs /\ [][NextTabs]_vars

\* --- the workflow store with its image optimisation

\* The imageData strings of the stored collection, as stored.
StoredImages(ls) ==
    LET stored == get(ls, "workflows")
        workflows == IF Falsy(stored) THEN JArr(<<>>) ELSE stored
    IN UNION {{Prop(step, "imageData").v :
                  step \in {s \in Values(Prop(workflow, "steps")) :
                               Prop(s, "imageData").k = "string"}} :
              workflow \in Values(workflows)}

\* workflowStorage.optimizeImageStorage()
OptimizeImageStorage ==
    \E quota \in BOOLEAN :
        /\ \A imageData \in StoredImages(localStorage) : Layers(imageData) < MaxLayers
        /\ LET r == optimizeImageStorage(localStorage, quota)
           IN /\ localStorage' = r.ls
              /\ last' = Call("optimizeImageStorage", "workflows", JUndef, JNum(r.ret),
                              getItem(localStorage, storageKey("workflows")), quota)
        /\ UNCHANGED <<useCompression, threshold, now, cur, lastSet, tabs>>

InitImages == InitWith("workflows", <<>>)

NextImages ==
    \/ SaveWorkflow
    \/ DeleteWorkflow
    \/ OptimizeImageStorage

SpecImages == InitImages /\ [][NextImages]_vars

\* --- the workflow store under saveWorkflow and deleteWorkflow alone

InitSaves == InitWith("workflows", <<>>)

NextSaves ==
    \/ SaveWorkflow
    \/ DeleteWorkflow

SpecSaves == InitSaves /\ [][NextSaves]_vars

\* --- a store whose key holds envelopes stamped with other versions

\* What a release with another schema version left under the key: an
\* envelope of a well-shaped payload, stamped below, at or above this.version.
EnvelopeWrite ==
    \E ver \in 0..(version + 1), data \in ValidValues(last.st) :
        LET st == last.st
            storedData == JObj([version |-> JNum(ver), updatedAt |-> JNum(now), data |-> data])
        IN /\ localStorage' = setItem(localStorage, storageKey(st), stringify(storedData))
           /\ lastSet' = [lastSet EXCEPT ![st] = NoSet]
           /\ last' = Call("envelopeWrite", st, storedData, JUndef,
                           getItem(localStorage, storageKey(st)), FALSE)
           /\ UNCHANGED <<useCompression, threshold, now, cur, tabs>>

\* store.get()
StoreGet ==
    /\ last.op # "get"
    /\ last' = Call("get", last.st, JUndef, get(localStorage, last.st),
                    getItem(localStorage, storageKey(last.st)), FALSE)
    /\ UNCHANGED <<localStorage, useCompression, threshold, now, cur, lastSet, tabs>>

InitVersion == \E st \in Stores : InitWith(st, <<>>)

NextVersion ==
    \/ StoreSet
    \/ StoreGet
    \/ EnvelopeWrite

SpecVersion == InitVersion /\ [][NextVersion]_vars

\* --- a store and its backups

\* store.createBackup()
CreateBackup ==
    \E quota \in BOOLEAN :
        LET st == last.st
            r == createBackup(localStorage, st, quota)
        IN /\ localStorage' = r.ls
           /\ last' = Call("createBackup", st, JUndef, r.ret,
                           getItem(localStorage, storageKey(st)), quota)
           /\ UNCHANGED <<useCompression, threshold, now, cur, lastSet, tabs>>

InitBackup == \E st \in Stores : InitWith(st, <<>>)

NextBackup ==
    \/ StoreSet
    \/ StoreRemove
    \/ CreateBackup
    \/ Tick

SpecBackup == InitBackup /\ [][NextBackup]_vars

\* --- workflows made by createNewWorkflow and saved, as the clock advances

\* The titles new workflows are given; the first is the default.
NewTitles == {"New Workflow", "t", "u"}

\* workflowStorage.saveWorkflow(workflowStorage.createNewWorkflow(title))
SaveNewWorkflow ==
    \E title \in NewTitles, quota \in BOOLEAN :
        /\ title \in NewTitles
        /\ WorkflowCall("saveNewWorkflow", createNewWorkflow(JStr(<<Ch(title)>>), now),
                        saveWorkflow(localStorage, createNewWorkflow(JStr(<<Ch(title)>>), now),
                                     quota),
                        quota)

\* workflowStorage.deleteWorkflow(id) of a workflow made at some clock reading
DeleteNewWorkflow ==
    \E t \in 1..now, quota \in BOOLEAN :
        /\ t \in 1..now
        /\ WorkflowCall("deleteWorkflow", Prop(createNewWorkflow(JStr(<<>>), t), "id"),
                        deleteWorkflow(localStorage,
                                       Prop(createNewWorkflow(JStr(<<>>), t), "id"), quota),
                        quota)

InitNew == InitWith("workflows", <<>>)

NextNew ==
    \/ SaveNewWorkflow
    \/ DeleteNewWorkflow
    \/ Tick

SpecNew == InitNew /\ [][NextNew]_vars

\* ------------------------------------------------------------------ claims

\* C5: decompress(compress(s)) = s for every string s, the empty string and
\* strings that begin with the marker included.
RoundTrip_C5 == decompress(compress(cur)) = cur

StoreRoundTrip_C1 ==
    lastSet[last.st].valid => get(localStorage, last.st) = lastSet[last.st].v

\* A value stored compressed is read after compression was switched off.
Witness_C1 ==
    /\ lastSet[last.st].valid
    /\ last.op = "setCompression"
    /\ ~useCompression[last.st]
    /\ isCompressed(getItem(localStorage, storageKey(last.st)).s)

\* C3: set(v) with a value the validation hook rejects, or with a storage
\* write that raises, returns false and leaves the string under the key as it
\* was (absent if it was absent).
SetFailureKeepsValue_C3 ==
    (last.op = "set" /\ (last.arg \in InvalidValues(last.st) \/ last.quota)) =>
        /\ last.ret = JBool(FALSE)
        /\ getItem(localStorage, storageKey(last.st)) = last.pre

\* The workflow store has been handed a collection of the wrong shape while
\* it held a value.
Witness_C3 ==
    /\ last.op = "set"
    /\ last.st = "workflows"
    /\ last.arg = JArr(<<Workflow("a", JNum(1), <<>>)>>)
    /\ ~last.quota
    /\ last.pre.present
    /\ last.ret = JBool(FALSE)

\* C4: get() returns null when the key is absent, and also when the string
\* under it is no parseable envelope.
GetNullOnCorrupted_C4 ==
    (last.op \in {"new", "remove", "foreignWrite"}) =>
        get(localStorage, last.st) \in {JNull, JUndef}

\* The steps array of a workflow, and whether x shows the id, title and steps of w.
StepsOf(w) == Prop(w, "steps").v

SameWorkflow(x, w) ==
    /\ Prop(x, "id") = Prop(w, "id")
    /\ Prop(x, "title") = Prop(w, "title")
    /\ Prop(x, "steps") = Prop(w, "steps")

\* The image data as stored, and as read, no step's is in compressed form.
StoredSteps(ls, i) == StepsOf(get(ls, "workflows").v[i])

NoCompressedImageRead(ls) ==
    \A j \in 1..Len(getWorkflows(ls).v) :
        \A i \in 1..Len(StepsOf(getWorkflows(ls).v[j])) :
            LET imageData == Prop(StepsOf(getWorkflows(ls).v[j])[i], "imageData")
            IN imageData.k = "string" => ~isCompressed(imageData.v)

\* C2: after saveWorkflow(w) returned true, getWorkflowById(w.id) and
\* getWorkflows() show every step's imageData exactly as saved, below and
\* above the image threshold, and never the compressed form.
ImageRoundTrip_C2 ==
    (last.op = "saveWorkflow" /\ last.ret = JBool(TRUE)) =>
        LET w == last.arg
            all == getWorkflows(localStorage)
            got == getWorkflowById(localStorage, Prop(w, "id"))
        IN /\ got # JNull
           /\ Len(StepsOf(got)) = Len(StepsOf(w))
           /\ \A i \in 1..Len(StepsOf(w)) :
                 Prop(StepsOf(got)[i], "imageData") = Prop(StepsOf(w)[i], "imageData")
           /\ \E j \in 1..Len(all.v) : all.v[j] = got
           /\ NoCompressedImageRead(localStorage)

\* A workflow with an image above the threshold has been saved, and the image
\* lies compressed in the stored collection.
Witness_C2 ==
    /\ last.op = "saveWorkflow"
    /\ last.ret = JBool(TRUE)
    /\ StepsOf(last.arg) = <<Step(LongImage)>>
    /\ \E j \in 1..Len(get(localStorage, "workflows").v) :
          /\ Prop(get(localStorage, "workflows").v[j], "id") = Prop(last.arg, "id")
          /\ isCompressed(Prop(StoredSteps(localStorage, j)[1], "imageData").v)

\* C8: a successful saveWorkflow(w) appends w when no stored workflow has its
\* id (the collection grows by one) and replaces the entry with that id where
\* it stands otherwise (the length is unchanged); getWorkflowById(w.id) then
\* shows the title and steps of w.
Upsert_C8 ==
    (last.op = "saveWorkflow" /\ last.ret = JBool(TRUE)) =>
        LET w == last.arg
            before == getWorkflows(Before)
            after == getWorkflows(localStorage)
            index == findIndex(before, Prop(w, "id"))
        IN /\ IF index = 0
              THEN /\ Len(after.v) = Len(before.v) + 1
                   /\ SameWorkflow(after.v[Len(after.v)], w)
              ELSE /\ Len(after.v) = Len(before.v)
                   /\ SameWorkflow(after.v[index], w)
           /\ getWorkflowById(localStorage, Prop(w, "id")) # JNull
           /\ SameWorkflow(getWorkflowById(localStorage, Prop(w, "id")), w)

\* The first of two stored workflows has been replaced by one with another title.
Witness_C8 ==
    /\ last.op = "saveWorkflow"
    /\ last.ret = JBool(TRUE)
    /\ Len(getWorkflows(Before).v) = 2
    /\ findIndex(getWorkflows(Before), Prop(last.arg, "id")) = 1
    /\ Prop(getWorkflows(Before).v[1], "title") # Prop(last.arg, "title")
    /\ Len(getWorkflows(localStorage).v) = 2

\* C9: deleteWorkflow(id) returns true exactly when a workflow with that id
\* was stored and is gone afterwards; then the collection is shorter; when no
\* stored workflow has the id it returns false and storage is untouched.
DeleteIff_C9 ==
    last.op = "deleteWorkflow" =>
        LET id == last.arg
            before == getWorkflows(Before)
            after == getWorkflows(localStorage)
        IN /\ (last.ret = JBool(TRUE)) <=>
                  (find(before, id) # JNull /\ getWorkflowById(localStorage, id) = JNull)
           /\ (last.ret = JBool(TRUE)) => Len(after.v) < Len(before.v)
           /\ find(before, id) = JNull =>
                  (last.ret = JBool(FALSE) /\ localStorage = Before)

\* One of two stored workflows has been deleted.
Witness_C9 ==
    /\ last.op = "deleteWorkflow"
    /\ last.ret = JBool(TRUE)
    /\ Len(getWorkflows(Before).v) = 2
    /\ Len(getWorkflows(localStorage).v) = 1

\* What migrateFromOldFormat is to leave behind: one workflow per legacy
\* workflow, in order, with its id, title and steps.
Migrated(old, after) ==
    /\ Len(after.v) = Len(old.v)
    /\ \A i \in 1..Len(old.v) : SameWorkflow(after.v[i], old.v[i])

\* C10, as claimed: on a non-empty legacy array migrateFromOldFormat()
\* returns true and getWorkflows() then shows the legacy workflows 1:1; on an
\* absent or empty legacy key it returns false and writes nothing.
MigrateCopies_C10 ==
    last.op = "migrateFromOldFormat" =>
        LET old == getOldWorkflows(Before)
        IN /\ (isArray(old) /\ Len(old.v) > 0) =>
                  (last.ret = JBool(TRUE) /\ Migrated(old, getWorkflows(localStorage)))
           /\ old = JArr(<<>>) => (last.ret = JBool(FALSE) /\ localStorage = Before)

\* C10, amended: the same, except that when the storage write raises the
\* call returns false and storage is as it was.
MigrateCopiesUnlessWriteFails_C10 ==
    last.op = "migrateFromOldFormat" =>
        LET old == getOldWorkflows(Before)
        IN /\ (isArray(old) /\ Len(old.v) > 0 /\ ~last.quota) =>
                  (last.ret = JBool(TRUE) /\ Migrated(old, getWorkflows(localStorage)))
           /\ (isArray(old) /\ Len(old.v) > 0 /\ last.quota) =>
                  (last.ret = JBool(FALSE) /\ localStorage = Before)
           /\ old = JArr(<<>>) => (last.ret = JBool(FALSE) /\ localStorage = Before)

\* Two legacy workflows, one with an image above the threshold, have been migrated.
Witness_C10 ==
    /\ last.op = "migrateFromOldFormat"
    /\ last.ret = JBool(TRUE)
    /\ isArray(getOldWorkflows(Before))
    /\ Len(getOldWorkflows(Before).v) = 2
    /\ \E i \in 1..2 :
          /\ StepsOf(getOldWorkflows(Before).v[i]) = <<Step(LongImage)>>
          /\ isCompressed(Prop(StoredSteps(localStorage, i)[1], "imageData").v)

\* C11: after a successful migrateFromOldFormat(), a second call with nothing
\* in between returns true again and re-imports the legacy workflows.
MigrateAgain_C11 ==
    (last.op = "migrateFromOldFormat" /\ last.ret = JBool(TRUE)) =>
        LET again == migrateFromOldFormat(localStorage, FALSE)
        IN /\ again.ret
           /\ Migrated(getOldWorkflows(Before), getWorkflows(again.ls))

\* C12: a successful migrateFromOldFormat() leaves the string under the legacy
\* key as it was, so the legacy reader returns the same workflows afterwards.
MigrateKeepsLegacy_C12 ==
    (last.op = "migrateFromOldFormat" /\ last.ret = JBool(TRUE)) =>
        /\ getItem(localStorage, STORAGE_KEYS_WORKFLOWS) = getItem(Before, STORAGE_KEYS_WORKFLOWS)
        /\ getOldWorkflows(localStorage) = getOldWorkflows(Before)

\* The step annotations stored for a workflow, and whether a field of one of
\* them is a non-empty string or a non-empty list.
StoredAnnotations(workflowId) == Prop(OrEmpty(get(localStorage, "annotations")), workflowId)

NonEmpty(x) == x.k \in {"string", "array"} /\ Len(x.v) > 0

CountWith(workflowId, fields) ==
    LET wa == StoredAnnotations(workflowId)
    IN Cardinality({f \in OwnKeys(wa) : \E g \in fields : NonEmpty(Prop(wa.v[f], g))})

\* C13: getAnnotationStats(workflowId) returns total = the number of step
\* annotations stored for the workflow, the four counts = the number of those
\* with a non-empty purpose, outcome, category, and with a prerequisite or
\* dependent; completeness * 4 * total = 100 * (the sum of the four counts);
\* all six are 0 for an unknown workflow or one without step annotations.
AnnotationStats_C13 ==
    last.st = "annotations" =>
        \A workflowId \in WorkflowIds :
            LET stats == getAnnotationStats(localStorage, workflowId)
                sum == stats.withPurpose + stats.withOutcome + stats.withCategory
                          + stats.withRelationships
            IN /\ stats.total = Cardinality(OwnKeys(StoredAnnotations(workflowId)))
               /\ stats.withPurpose = CountWith(workflowId, {"purpose"})
               /\ stats.withOutcome = CountWith(workflowId, {"expectedOutcome"})
               /\ stats.withCategory = CountWith(workflowId, {"category"})
               /\ stats.withRelationships =
                      CountWith(workflowId, {"prerequisiteSteps", "dependentSteps"})
               /\ stats.completeness.num * 4 * stats.total = 100 * sum * stats.completeness.den
               /\ stats.total = 0 => stats = NoStats

\* Two steps are annotated, one with an empty purpose and a prerequisite, the
\* other with a category: two of eight fields are filled, completeness is 25.
Witness_C13 ==
    /\ last.st = "annotations"
    /\ Prop(Prop(StoredAnnotations("a"), "s"), "purpose") = JStr(<<>>)
    /\ getAnnotationStats(localStorage, "a") =
          [total |-> 2, withPurpose |-> 0, withOutcome |-> 0, withCategory |-> 1,
           withRelationships |-> 1, completeness |-> [num |-> 200, den |-> 8]]
    /\ getAnnotationStats(localStorage, "b") = NoStats

\* The field f of the stored preferences record when it is present there
\* (inside section s, or at top level when s is ""), and of the defaults otherwise.
StoredOrDefault(s, f) ==
    LET saved == get(localStorage, "preferences")
        from(x) == IF s = "" THEN x ELSE Prop(x, s)
    IN IF In(f, from(saved)) THEN Prop(from(saved), f)
       ELSE Prop(from(DEFAULT_PREFERENCES), f)

\* C14: getPreferences() never returns null; whatever the slot holds, every
\* field of the default shape is present in the result, taken from the stored
\* record when it is present there and from the defaults otherwise.
PreferencesComplete_C14 ==
    last.st = "preferences" =>
        LET p == getPreferences(localStorage)
        IN /\ p.k = "object"
           /\ \A s \in {"theme", "editor", "export"} :
                 \A f \in DOMAIN Prop(DEFAULT_PREFERENCES, s).v :
                    /\ In(f, Prop(p, s))
                    /\ Prop(Prop(p, s), f) = StoredOrDefault(s, f)
           /\ \A f \in {"lastUsedModel", "recentWorkflows"} :
                 /\ In(f, p)
                 /\ Prop(p, f) = StoredOrDefault("", f)
           /\ In("lastUpdated", p)

\* The sub-object an update operation merges into.
SectionOf(op) ==
    CASE op = "updateThemePreferences" -> "theme"
      [] op = "updateEditorPreferences" -> "editor"
      [] op = "updateExportPreferences" -> "export"

\* C15: after updateThemePreferences(partial) returned true, getPreferences()
\* shows the values of partial for the theme fields it names, and every other
\* theme field, the editor and export sub-objects, lastUsedModel and
\* recentWorkflows as getPreferences() showed them before the call; likewise
\* for updateEditorPreferences and updateExportPreferences.
UpdateSectionFrame_C15 ==
    (/\ last.op \in {"updateThemePreferences", "updateEditorPreferences",
                     "updateExportPreferences"}
     /\ last.ret = JBool(TRUE)) =>
        LET s == SectionOf(last.op)
            before == getPreferences(BeforeOf)
            after == getPreferences(localStorage)
        IN /\ \A f \in DOMAIN last.arg.v : Prop(Prop(after, s), f) = last.arg.v[f]
           /\ \A f \in DOMAIN Prop(before, s).v \ DOMAIN last.arg.v :
                 Prop(Prop(after, s), f) = Prop(Prop(before, s), f)
           /\ DOMAIN Prop(after, s).v = DOMAIN Prop(before, s).v \cup DOMAIN last.arg.v
           /\ \A g \in {"theme", "editor", "export", "lastUsedModel", "recentWorkflows"} \ {s} :
                 Prop(after, g) = Prop(before, g)

\* The colour scheme has been changed on a stored record whose darkMode was
\* on; darkMode is still on.
Witness_C15 ==
    /\ last.op = "updateThemePreferences"
    /\ last.ret = JBool(TRUE)
    /\ Prop(Prop(getPreferences(BeforeOf), "theme"), "darkMode") = JBool(TRUE)
    /\ Prop(Prop(getPreferences(BeforeOf), "theme"), "colorScheme") = Text("default")
    /\ Prop(Prop(getPreferences(localStorage), "theme"), "darkMode") = JBool(TRUE)
    /\ Prop(Prop(getPreferences(localStorage), "theme"), "colorScheme") = Text("blue")

\* The recentWorkflows list getPreferences() shows, the elements of a list,
\* and the place of an element in a list without repetitions.
Recent(ls) == Prop(getPreferences(ls), "recentWorkflows").v

Elems(a) == {a[i] : i \in 1..Len(a)}

Pos(a, x) == CHOOSE i \in 1..Len(a) : a[i] = x

\* C16: from the defaults, after any addRecentWorkflow calls, recentWorkflows
\* has at most the maximum of entries and no id twice; after a successful call
\* its id is first and the other ids follow in their previous relative order,
\* only the oldest being dropped, and only when the list would exceed the maximum.
RecentWorkflows_C16 ==
    LET r == Recent(localStorage)
    IN /\ Len(r) <= MAX_RECENT_WORKFLOWS
       /\ \A i, j \in 1..Len(r) : i # j => r[i] # r[j]
       /\ (last.op = "addRecentWorkflow" /\ last.ret = JBool(TRUE)) =>
             LET before == Recent(BeforeOf)
                 others == Tail(r)
                 kept == Elems(before) \ {last.arg}
             IN /\ r[1] = last.arg
                /\ Elems(others) \subseteq kept
                /\ \A x, y \in Elems(others) :
                      Pos(others, x) < Pos(others, y) => Pos(before, x) < Pos(before, y)
                /\ IF Cardinality(kept) + 1 > MAX_RECENT_WORKFLOWS
                   THEN kept \ Elems(others) = {before[Len(before)]}
                   ELSE kept = Elems(others)

\* A new id has been added to a full list: the oldest id is gone, the others
\* have moved down one place.
Witness_C16 ==
    /\ last.op = "addRecentWorkflow"
    /\ last.ret = JBool(TRUE)
    /\ Len(Recent(BeforeOf)) = MAX_RECENT_WORKFLOWS
    /\ last.arg \notin Elems(Recent(BeforeOf))
    /\ Len(Recent(localStorage)) = MAX_RECENT_WORKFLOWS
    /\ Recent(BeforeOf)[MAX_RECENT_WORKFLOWS] \notin Elems(Recent(localStorage))
    /\ Recent(localStorage)[2] = Recent(BeforeOf)[1]

\* --------------------------------------------------------------------- C17

Ids(workflows) == [i \in DOMAIN workflows.v |-> Prop(workflows.v[i], "id")]

Writer == last.arg.v.tab.v

\* C17: two tabs inside saveWorkflow on the same key are not coordinated.  A
\* tab's write that the browser accepts returns true whatever the other tab
\* wrote since this tab read, and the collection then stored is this tab's own
\* snapshot with its workflow put in: the same ids in the same order (its own
\* appended when new), every other workflow as this tab read it.  Nothing the
\* other tab wrote in between is merged in.  A refused write returns false
\* and leaves the key as it was.
LastWriteWins_C17 ==
    (last.op = "saveWorkflow" /\ tabs[Writer].pc = "done") =>
        LET snapshot == tabs[Writer].workflows
            workflow == tabs[Writer].workflow
            stored == getWorkflows(localStorage)
            own == Prop(workflow, "id")
        IN IF last.quota
           THEN /\ last.ret = JBool(FALSE)
                /\ localStorage = BeforeOf
           ELSE /\ last.ret = JBool(TRUE)
                /\ tabs[Writer].ret = JBool(TRUE)
                /\ Ids(stored) = IF \E i \in DOMAIN snapshot.v : Ids(snapshot)[i] = own
                                 THEN Ids(snapshot)
                                 ELSE Append(Ids(snapshot), own)
                /\ \A i \in DOMAIN snapshot.v :
                       Ids(snapshot)[i] # own => stored.v[i] = snapshot.v[i]
                /\ \E i \in DOMAIN stored.v :
                       /\ Ids(stored)[i] = own
                       /\ Prop(stored.v[i], "title") = Prop(workflow, "title")
                       /\ Prop(stored.v[i], "steps") = Prop(workflow, "steps")

\* Both tabs read the same collection, then both wrote: both calls returned
\* true and the workflow of the tab that wrote first is gone.
Witness_C17 ==
    /\ last.op = "saveWorkflow"
    /\ \A tab \in Tabs : tabs[tab].pc = "done" /\ tabs[tab].ret = JBool(TRUE)
    /\ \E tab \in Tabs :
           /\ tab # Writer
           /\ tabs[tab].workflows = tabs[Writer].workflows
           /\ \A i \in DOMAIN getWorkflows(localStorage).v :
                  Ids(getWorkflows(localStorage))[i] # Prop(tabs[tab].workflow, "id")

\* --------------------------------------------------------------------- C18

\* C18: the workflow, annotation and preferences stores write under
\* wld_workflows, wld_annotations and wld_preferences, three different keys,
\* and no operation of one of them changes the string stored under the key of
\* either of the other two.
DisjointKeys_C18 ==
    [][/\ storageKey("workflows") = "wld_workflows"
       /\ storageKey("annotations") = "wld_annotations"
       /\ storageKey("preferences") = "wld_preferences"
       /\ Cardinality({storageKey(st) : st \in DomainStores}) = 3
       /\ \A st \in DomainStores \ {last'.st} :
              getItem(localStorage', storageKey(st)) = getItem(localStorage, storageKey(st))]_vars

\* One of the stores has just rewritten its own key while the other two keys
\* hold what their stores wrote.
Witness_C18 ==
    /\ last.op # "new"
    /\ last.ret = JBool(TRUE)
    /\ getItem(localStorage, storageKey(last.st)) # last.pre
    /\ \A st \in DomainStores \ {last.st} : getItem(localStorage, storageKey(st)).present

\* --------------------------------------------------------------------- C19

\* C19: no operation of the workflow store compresses a string that is already
\* in compressed form: neither the stored envelope nor any stored imageData
\* ever carries two layers of compression.
NoDoubleCompression_C19 ==
    /\ Layers(getItem(localStorage, storageKey("workflows")).s) <= 1
    /\ \A imageData \in StoredImages(localStorage) : Layers(imageData) <= 1

\* --------------------------------------------------------------------- C20

\* C20: optimizeImageStorage() does not show to readers: getWorkflows() right
\* after the call returns what it returned right before it.
OptimizeInvisible_C20 ==
    last.op = "optimizeImageStorage" =>
        getWorkflows(localStorage) = getWorkflows(Before)

\* --------------------------------------------------------------------- C21

\* C21: after saveWorkflow and deleteWorkflow calls, every imageData of the
\* stored collection whose original is at or above the image threshold
\* (twice its length, in bytes) is stored in compressed form, in the workflow
\* of the latest call and in every other one.
LargeImagesStoredCompressed_C21 ==
    \A imageData \in StoredImages(localStorage) :
        StrLen(autoDecompress(imageData)) * 2 >= IMAGE_COMPRESSION_THRESHOLD =>
            isCompressed(imageData)

\* --------------------------------------------------------------------- C22

\* The steps of the stored collection of ls, as <<workflow, step>> positions,
\* whose imageData is stored uncompressed and is at or above the image threshold.
UncompressedLargeSteps(ls) ==
    LET stored == get(ls, "workflows")
        workflows == IF Falsy(stored) THEN JArr(<<>>) ELSE stored
    IN UNION {{<<j, i>> : i \in {i \in 1..Len(StepsOf(workflows.v[j])) :
                  LET imageData == Prop(StepsOf(workflows.v[j])[i], "imageData")
                  IN /\ imageData.k = "string"
                     /\ ~isCompressed(imageData.v)
                     /\ StrLen(imageData.v) * 2 >= IMAGE_COMPRESSION_THRESHOLD}} :
              j \in 1..Len(workflows.v)}

\* C22: optimizeImageStorage() returns the number of steps whose stored
\* imageData was uncompressed and at or above the image threshold before the
\* call; when that number is 0 (every stored image already compressed or
\* below the threshold) it returns 0 and leaves the storage as it was.
OptimizeCountsNewlyCompressed_C22 ==
    last.op = "optimizeImageStorage" =>
        /\ last.ret = JNum(Cardinality(UncompressedLargeSteps(Before)))
        /\ UncompressedLargeSteps(Before) = {} => localStorage = Before

\* --------------------------------------------------------------------- C23

\* The envelope under the key of the store in use, decompressed and parsed.
StoredEnvelope(ls) == parse(autoDecompress(getItem(ls, storageKey(last.st)).s)).x

Older(storedData) ==
    /\ Prop(storedData, "version").k = "number"
    /\ Prop(storedData, "version").v < version

\* C23: an envelope written by set() carries the store's version.  get() on
\* an envelope of a lower version returns its payload as it is and leaves the
\* storage, lower version included, as it was; the envelope carries the
\* current version only once a later set() has written it.
VersionStamp_C23 ==
    /\ (last.op = "set" /\ last.ret = JBool(TRUE)) =>
           Prop(StoredEnvelope(localStorage), "version") = JNum(version)
    /\ (last.op = "get" /\ getItem(localStorage, storageKey(last.st)).present
          /\ Older(StoredEnvelope(localStorage))) =>
           /\ last.ret = Prop(StoredEnvelope(localStorage), "data")
           /\ localStorage = BeforeOf
    /\ (last.op = "envelopeWrite" /\ Older(last.arg)) => Older(StoredEnvelope(localStorage))

\* get() has just read an envelope of a lower version and returned its payload.
Witness_C23 ==
    /\ last.op = "get"
    /\ getItem(localStorage, storageKey(last.st)).present
    /\ Older(StoredEnvelope(localStorage))
    /\ last.ret.k = "array"
    /\ last.ret.v # <<>>

\* --------------------------------------------------------------------- C24

\* C24: createBackup() on a store whose key holds a value, whatever the
\* value, writes an envelope of that payload under <storageKey>_backup_<now>,
\* returns that key and changes nothing else, the primary key included; with
\* the key absent it returns null and writes nothing.  (Calls whose write the
\* browser refuses are left aside.)
BackupOfWhateverIsStored_C24 ==
    [][(last'.op = "createBackup" /\ ~last'.quota) =>
          LET st == last'.st
              key == backupKey(st, now)
          IN IF getItem(localStorage, storageKey(st)).present
             THEN /\ last'.ret = S(key)
                  /\ getItem(localStorage', key).present
                  /\ Prop(parse(autoDecompress(getItem(localStorage', key).s)).x, "data")
                         = get(localStorage, st)
                  /\ \A k \in Keys \ {key} : localStorage'[k] = localStorage[k]
             ELSE /\ last'.ret = JNull
                  /\ localStorage' = localStorage]_vars

\* --------------------------------------------------------------------- C25

\* The arguments of the last annotation call, and the annotation they name
\* as getStepAnnotation shows it in storage ls.
ArgWorkflowId == TextOf(Prop(last.arg, "workflowId"))

ArgStepId == TextOf(Prop(last.arg, "stepId"))

ArgAnnotation(ls) == getStepAnnotation(ls, ArgWorkflowId, ArgStepId)

\* Annotation y is annotation x with the fields in given set as given and
\* every other field except updatedAt as in x.
SameBut(x, y, given) ==
    /\ \A f \in DOMAIN given : Prop(y, f) = given[f]
    /\ \A f \in (OwnKeys(x) \cup OwnKeys(y)) \ (DOMAIN given \cup {"updatedAt"}) :
           Prop(y, f) = Prop(x, f)

FieldUpdated ==
    /\ last.ret = JBool(TRUE)
    /\ SameBut(ArgAnnotation(BeforeOf), ArgAnnotation(localStorage),
               [f \in {TextOf(Prop(last.arg, "field"))} |-> Prop(last.arg, "value")])

\* C25 as stated: updateAnnotationField returns false and leaves the stored
\* annotations as they were when the step has no annotation; when it has one
\* the call returns true and getStepAnnotation then shows the new value for
\* the field, every other field except updatedAt as before.
UpdateField_C25 ==
    last.op = "updateAnnotationField" =>
        IF Falsy(ArgAnnotation(BeforeOf))
        THEN last.ret = JBool(FALSE) /\ localStorage = BeforeOf
        ELSE FieldUpdated

\* C25, amended: as stated when the storage write succeeds; when the write
\* raises, the call returns false and the stored annotations are as before.
UpdateFieldUnlessWriteFails_C25 ==
    last.op = "updateAnnotationField" =>
        IF Falsy(ArgAnnotation(BeforeOf)) \/ last.quota
        THEN last.ret = JBool(FALSE) /\ localStorage = BeforeOf
        ELSE FieldUpdated

\* A field of an annotation that already had another field set was updated.
Witness_C25 ==
    /\ last.op = "updateAnnotationField"
    /\ last.ret = JBool(TRUE)
    /\ Prop(last.arg, "field") = S("category")
    /\ Prop(ArgAnnotation(BeforeOf), "expectedOutcome") = S("x")
    /\ Prop(ArgAnnotation(localStorage), "expectedOutcome") = S("x")
    /\ Prop(ArgAnnotation(BeforeOf), "category") = JUndef

\* --------------------------------------------------------------------- C26

\* C26: updateStepRelationships puts exactly the two lists given in place of
\* the annotation's prerequisiteSteps and dependentSteps, its other fields
\* except updatedAt staying as they were, and changes the annotation of no
\* other step of any workflow, the steps named in the lists included; a call
\* that returns false changes nothing at all.
ReplaceRelationships_C26 ==
    last.op = "updateStepRelationships" =>
        /\ last.ret = JBool(TRUE) =>
               SameBut(ArgAnnotation(BeforeOf), ArgAnnotation(localStorage),
                       [f \in {"prerequisiteSteps", "dependentSteps"} |->
                           IF f = "prerequisiteSteps" THEN Prop(last.arg, "prerequisites")
                           ELSE Prop(last.arg, "dependents")])
        /\ last.ret = JBool(FALSE) => localStorage = BeforeOf
        /\ \A workflowId \in WorkflowIds, stepId \in StepIds :
               <<workflowId, stepId>> # <<ArgWorkflowId, ArgStepId>> =>
                   getStepAnnotation(localStorage, workflowId, stepId)
                       = getStepAnnotation(BeforeOf, workflowId, stepId)

\* Step s, which had r as prerequisite, now has r as dependent only, and the
\* stored annotation of r names s in neither of its lists.
Witness_C26 ==
    /\ last.op = "updateStepRelationships"
    /\ last.ret = JBool(TRUE)
    /\ Prop(ArgAnnotation(BeforeOf), "prerequisiteSteps") = JArr(<<S("r")>>)
    /\ Prop(ArgAnnotation(localStorage), "prerequisiteSteps") = JArr(<<>>)
    /\ Prop(ArgAnnotation(localStorage), "dependentSteps") = JArr(<<S("r")>>)
    /\ ~Falsy(getStepAnnotation(localStorage, ArgWorkflowId, "r"))
    /\ Prop(getStepAnnotation(localStorage, ArgWorkflowId, "r"), "prerequisiteSteps") = JUndef

\* --------------------------------------------------------------------- C27

\* The id saveWorkflow or deleteWorkflow was called for.
TargetId == IF last.op = "saveWorkflow" THEN Prop(last.arg, "id") ELSE last.arg

\* C27: saveWorkflow(w) and deleteWorkflow(id) change the targeted workflow
\* only: the other workflows, as getWorkflows() returns them, are the same
\* and in the same order before and after the call.
OtherWorkflowsUntouched_C27 ==
    last.op \in {"saveWorkflow", "deleteWorkflow"} =>
        filterOut(getWorkflows(localStorage).v, TargetId)
            = filterOut(getWorkflows(Before).v, TargetId)

\* --------------------------------------------------------------------- C28

\* C28: after saveWorkflow and deleteWorkflow calls from an absent
\* collection, no two workflows of the stored collection have the same id.
DistinctIds_C28 ==
    LET stored == get(localStorage, "workflows")
    IN ~Falsy(stored) =>
           \A i, j \in 1..Len(stored.v) :
               Prop(stored.v[i], "id") = Prop(stored.v[j], "id") => i = j

\* Two workflows are stored, and the last call saved one whose id was already
\* there.
Witness_C28 ==
    /\ last.op = "saveWorkflow"
    /\ last.ret = JBool(TRUE)
    /\ findIndex(getWorkflows(Before), Prop(last.arg, "id")) > 0
    /\ Len(get(localStorage, "workflows").v) = Cardinality(WorkflowIds)

\* --------------------------------------------------------------------- C29

\* C29: workflows from separate createNewWorkflow() calls have different ids,
\* also within one clock millisecond, so each successful save of a newly
\* created workflow leaves one more workflow stored than before.
NewWorkflowsDistinct_C29 ==
    [][(last'.op = "saveNewWorkflow" /\ last'.ret = JBool(TRUE)) =>
          /\ findIndex(getWorkflows(localStorage), Prop(last'.arg, "id")) = 0
          /\ Len(getWorkflows(localStorage').v) = Len(getWorkflows(localStorage).v) + 1]_vars

\* --------------------------------------------------------------------- C30

\* C30: after setLastUsedModel(id) returned true, getPreferences() shows id
\* as lastUsedModel, for every string id, the empty one included.
LastUsedModelReadBack_C30 ==
    (last.op = "setLastUsedModel" /\ last.ret = JBool(TRUE)) =>
        Prop(getPreferences(localStorage), "lastUsedModel") = last.arg

====
